---- MODULE Spec2Model ----
(***************************************************************************)
(* The request governor of src/services/geminiService.ts: the FIFO request *)
(* queue (rateLimitedRequest / processQueue), the dispatch spacing, the    *)
(* window counter and the retry loop (retryWithBackoff).                   *)
(*                                                                         *)
(* A state is the program at a point where the JavaScript event loop is    *)
(* idle: every coroutine is suspended on a timer, on the upstream call or  *)
(* has finished.  One action is one event-loop turn, run to its next       *)
(* suspension, all promise continuations included.                         *)
(***************************************************************************)
EXTENDS Integers, Sequences, FiniteSets, TLC

\* ---------------------------------------------------------------- constants
MIN_REQUEST_INTERVAL == 5000

MAX_REQUESTS_PER_MINUTE == 12

RATE_LIMIT_WINDOW == 60000

maxRetries == 3

baseDelay == 6000

\* ------------------------------------------------------------------- bounds
\* the clock does not advance beyond StartTime + MaxElapsed, and calls are
\* made early enough for their window timer to fire before that
MaxElapsed == 63000

\* an instant, counted from its dispatch, at which an upstream call in flight
\* may return without a timer being due
OpLatency == 2000

\* the concurrent calls of retryWithBackoff (by getDailyPlan and
\* getReflectionResponse), numbered in the order they are made
Callers == {1, 2, 3}

\* Date.now() when the module is loaded: long after the epoch
StartTime == 2 * RATE_LIMIT_WINDOW

\* rateLimitedRequest is called at most MaxTickets times in a behaviour
MaxTickets == 4

Tickets == 1..MaxTickets

\* ------------------------------------------------------------ error messages
\* An error message is the set of the marker substrings it contains.
Markers == {"429", "quota", "RESOURCE_EXHAUSTED", "free_tier_requests",
            "503", "overloaded", "UNAVAILABLE", "401", "API key"}

\* the messages the upstream operation fails with
OpErrors == { {"429", "quota"}, {"503"}, {"401"} }

\* what one invocation of the wrapped operation produces
OpOutcome(ticket, ok, msg) == [ok |-> ok, msg |-> msg, id |-> ticket]

OpOutcomes(ticket) == {OpOutcome(ticket, TRUE, {})} \cup {OpOutcome(ticket, FALSE, m) : m \in OpErrors}

\* new Error('Free tier quota exhausted. Please upgrade to paid tier ...')
QuotaExhaustedError == [ok |-> FALSE, msg |-> {"quota"}, id |-> 0]

NoOutcome == [ok |-> FALSE, msg |-> {}, id |-> -1]

\* ----------------------------------------------------------- classification
IsQuotaError(msg) == /\ ("429" \in msg \/ "quota" \in msg)
                     /\ \/ "RESOURCE_EXHAUSTED" \in msg
                        \/ "quota" \in msg
                        \/ "free_tier_requests" \in msg

\* every error treated as retryable
IsRetryableAlways(msg) == TRUE

IsRetryable(msg) == \/ "503" \in msg
                    \/ "overloaded" \in msg
                    \/ "UNAVAILABLE" \in msg

RECURSIVE Pow(_, _)
Pow(b, e) == IF e = 0 THEN 1 ELSE b * Pow(b, e - 1)

\* Math.pow(2, attempt - 1) in place of Math.pow(2, attempt)
QuotaDelayFromOne(base, attempt) == base * Pow(2, attempt - 1)

\* baseDelay * Math.pow(2, attempt)
QuotaDelay(base, attempt) == base * Pow(2, attempt)

\* Math.pow(1.5, attempt) in place of Math.pow(1.5, attempt - 1)
RetryDelayFromNext(base, attempt) == (base * Pow(3, attempt)) \div Pow(2, attempt)

\* baseDelay * Math.pow(1.5, attempt - 1)
RetryDelay(base, attempt) == (base * Pow(3, attempt - 1)) \div Pow(2, attempt - 1)

\* attempt > maxRetries in place of attempt === maxRetries
IsLastAttemptLate(attempt) == attempt > maxRetries

\* attempt === maxRetries
IsLastAttempt(attempt) == attempt = maxRetries

VARIABLES now, lastRequestTime, requestCount, requestQueue, isProcessingQueue,
          windowTimers, drains, nextTicket, dispatchLog, returned, settled,
          callers, probe

vars == <<now, lastRequestTime, requestCount, requestQueue, isProcessingQueue,
          windowTimers, drains, nextTicket, dispatchLog, returned, settled,
          callers, probe>>

\* the governor's state as one value, so that the synchronous steps compose
Gov == [lastRequestTime |-> lastRequestTime, requestCount |-> requestCount,
        requestQueue |-> requestQueue, isProcessingQueue |-> isProcessingQueue,
        windowTimers |-> windowTimers, drains |-> drains,
        nextTicket |-> nextTicket, dispatchLog |-> dispatchLog]

\* ------------------------------------------------------ rateLimitedRequest
\* waits timeSinceLastRequest in place of the remainder of the interval
WaitTimeElapsed(t, last) == t - last

\* MIN_REQUEST_INTERVAL - timeSinceLastRequest
WaitTime(t, last) == MIN_REQUEST_INTERVAL - (t - last)

\* timeSinceLastRequest < MIN_REQUEST_INTERVAL
NeedsWait(t, last) == t - last < MIN_REQUEST_INTERVAL

\* the dispatch without line 43: the decrement is scheduled, nothing counted
DispatchNoCount(g, e, t) ==
    [g EXCEPT !.lastRequestTime = t,
              !.windowTimers = Append(@, t + RATE_LIMIT_WINDOW),
              !.drains = @ \cup {[entry |-> e, pc |-> "op", wake |-> t + OpLatency]},
              !.dispatchLog = Append(@, [ticket |-> e.ticket, caller |-> e.caller,
                                         attempt |-> e.attempt, ahead |-> e.ahead,
                                         gap |-> t - g.lastRequestTime])]

\* lines 41-48: stamp, count, schedule the decrement, invoke requestFn
Dispatch(g, e, t) ==
    [g EXCEPT !.lastRequestTime = t,
              !.requestCount = @ + 1,
              !.windowTimers = Append(@, t + RATE_LIMIT_WINDOW),
              !.drains = @ \cup {[entry |-> e, pc |-> "op", wake |-> t + OpLatency]},
              !.dispatchLog = Append(@, [ticket |-> e.ticket, caller |-> e.caller,
                                         attempt |-> e.attempt, ahead |-> e.ahead,
                                         gap |-> t - g.lastRequestTime])]

\* lines 30-48: the queued closure, from its start to its first suspension
StartEntry(g, e, t) ==
    IF NeedsWait(t, g.lastRequestTime)
    THEN [g EXCEPT !.drains = @ \cup {[entry |-> e, pc |-> "spacing",
                                       wake |-> t + WaitTime(t, g.lastRequestTime)]}]
    ELSE Dispatch(g, e, t)

\* requestQueue.pop() in place of shift(): the newest entry first
ShiftNewest(q) == [head |-> q[Len(q)], rest |-> SubSeq(q, 1, Len(q) - 1)]

\* requestQueue.shift()
Shift(q) == [head |-> Head(q), rest |-> Tail(q)]

\* the loop without line 76: isProcessingQueue is not reset at its end
DrainLoopKeepsFlag(g, t) ==
    IF Len(g.requestQueue) > 0
    THEN StartEntry([g EXCEPT !.requestQueue = Shift(g.requestQueue).rest],
                    Shift(g.requestQueue).head, t)
    ELSE g

\* lines 65-76: the while loop, from its test to the next suspension
DrainLoop(g, t) ==
    IF Len(g.requestQueue) > 0
    THEN StartEntry([g EXCEPT !.requestQueue = Shift(g.requestQueue).rest],
                    Shift(g.requestQueue).head, t)
    ELSE [g EXCEPT !.isProcessingQueue = FALSE]

\* an entry's failure escapes processQueue: the loop is left, the flag stays
AfterEntryThrowing(g, outcome, t) == IF outcome.ok THEN DrainLoop(g, t) ELSE g

\* lines 50-52, 68-73: the closure settles its promise and returns normally
\* whatever the outcome, and the loop goes on to its test
AfterEntry(g, outcome, t) == DrainLoop(g, t)

\* the guard without its isProcessingQueue test
DrainGuardNoFlag(g) == Len(g.requestQueue) # 0

\* line 61: if (isProcessingQueue || requestQueue.length === 0) return
DrainGuard(g) == ~(g.isProcessingQueue \/ Len(g.requestQueue) = 0)

\* processQueue without line 63: isProcessingQueue is never set
ProcessQueueNoFlagSet(g, t) == IF DrainGuard(g) THEN DrainLoop(g, t) ELSE g

\* lines 60-77, from the call to the first suspension
ProcessQueue(g, t) ==
    IF DrainGuard(g)
    THEN DrainLoop([g EXCEPT !.isProcessingQueue = TRUE], t)
    ELSE g

\* the push without line 55: processQueue is not called
RateLimitedRequestNoDrain(g, c, attempt, t) ==
    [g EXCEPT !.requestQueue =
                  Append(@, [ticket |-> g.nextTicket, caller |-> c,
                             attempt |-> attempt,
                             ahead |-> Len(g.requestQueue) + Cardinality(g.drains)]),
              !.nextTicket = @ + 1]

\* lines 27-57: push the closure, then processQueue()
RateLimitedRequest(g, c, attempt, t) ==
    ProcessQueue([g EXCEPT !.requestQueue =
                               Append(@, [ticket |-> g.nextTicket, caller |-> c,
                                          attempt |-> attempt,
                                          ahead |-> Len(g.requestQueue) + Cardinality(g.drains)]),
                           !.nextTicket = @ + 1], t)

\* resolve/reject kept in one shared variable: those of the newest call
PromiseOfNewest(g, e) == g.nextTicket - 1

\* the promise an entry's closure settles: the resolve/reject it captured
PromiseOf(g, e) == e.ticket

SetGov(g) ==
    /\ lastRequestTime' = g.lastRequestTime
    /\ requestCount' = g.requestCount
    /\ requestQueue' = g.requestQueue
    /\ isProcessingQueue' = g.isProcessingQueue
    /\ windowTimers' = g.windowTimers
    /\ drains' = g.drains
    /\ nextTicket' = g.nextTicket
    /\ dispatchLog' = g.dispatchLog

\* -------------------------------------------------------- retryWithBackoff
\* lines 90-125: the catch block after an attempt that failed
AfterFailure(failed, outcome, t) ==
    IF IsQuotaError(outcome.msg)
    THEN IF IsLastAttempt(failed.attempt)
         THEN [failed EXCEPT !.pc = "done", !.result = QuotaExhaustedError]
         ELSE [failed EXCEPT !.pc = "backoff",
                             !.wake = t + QuotaDelay(baseDelay, failed.attempt),
                             !.waits = Append(@, QuotaDelay(baseDelay, failed.attempt))]
    ELSE IF ~IsRetryable(outcome.msg) \/ IsLastAttempt(failed.attempt)
         THEN [failed EXCEPT !.pc = "done", !.result = outcome]
         ELSE [failed EXCEPT !.pc = "backoff",
                             !.wake = t + RetryDelay(baseDelay, failed.attempt),
                             !.waits = Append(@, RetryDelay(baseDelay, failed.attempt))]

\* line 89 without its return: after a success the loop goes on to attempt++
AfterAttemptNoReturn(cr, outcome, t) ==
    LET seen == [cr EXCEPT !.calls = Append(@, outcome)] IN
    IF outcome.ok
    THEN [seen EXCEPT !.pc = "backoff", !.wake = t]
    ELSE AfterFailure([seen EXCEPT !.lastError = outcome], outcome, t)

\* lines 87-125: the return, or the catch block, after one attempt settled
AfterAttempt(cr, outcome, t) ==
    LET seen == [cr EXCEPT !.calls = Append(@, outcome)] IN
    IF outcome.ok
    THEN [seen EXCEPT !.pc = "done", !.result = outcome]
    ELSE AfterFailure([seen EXCEPT !.lastError = outcome], outcome, t)

\* getDailyPlan's goal argument: missing, or with its title
NoGoal == [present |-> FALSE, title |-> ""]

Goals == {NoGoal, [present |-> TRUE, title |-> ""],
          [present |-> TRUE, title |-> "Run a marathon"]}

\* getDailyPlan's profile argument: missing, or with its identity
NoProfile == [present |-> FALSE, identity |-> ""]

Profiles == {NoProfile, [present |-> TRUE, identity |-> ""],
             [present |-> TRUE, identity |-> "Runner"]}

\* no function has been applied to a drawn input yet
NoProbe == [fn |-> "none"]

Init ==
    /\ now = StartTime
    /\ lastRequestTime = 0
    /\ requestCount = 0
    /\ requestQueue = <<>>
    /\ isProcessingQueue = FALSE
    /\ windowTimers = <<>>
    /\ drains = {}
    /\ nextTicket = 1
    /\ dispatchLog = <<>>
    /\ returned = [k \in Tickets |-> <<>>]
    /\ settled = [k \in Tickets |-> <<>>]
    /\ callers = [c \in Callers |-> [pc |-> "idle", attempt |-> 0, wake |-> 0,
                                     ticket |-> 0,
                                     lastError |-> NoOutcome, result |-> NoOutcome,
                                     calls |-> <<>>, waits |-> <<>>,
                                     fn |-> "retryWithBackoff",
                                     goal |-> NoGoal, profile |-> NoProfile]]
    /\ probe = NoProbe

\* a caller enters retryWithBackoff: attempt = 1, rateLimitedRequest(fn)
Call(c) ==
    /\ callers[c].pc = "idle"
    /\ now + RATE_LIMIT_WINDOW <= StartTime + MaxElapsed
    /\ nextTicket <= MaxTickets
    /\ \A b \in Callers : b < c => callers[b].pc # "idle"
    /\ SetGov(RateLimitedRequest(Gov, c, 1, now))
    /\ callers' = [callers EXCEPT ![c].pc = "awaiting", ![c].attempt = 1,
                                   ![c].ticket = nextTicket]
    /\ UNCHANGED <<now, returned, settled, probe>>

\* the spacing delay of the entry being drained fires: lines 41-48
SpacingElapsed(d) ==
    /\ d \in drains
    /\ d.pc = "spacing"
    /\ now >= d.wake
    /\ SetGov(Dispatch([Gov EXCEPT !.drains = @ \ {d}], d.entry, now))
    /\ UNCHANGED <<now, returned, settled, callers, probe>>

\* the upstream operation of the dispatched entry returns or throws:
\* resolve/reject (lines 49-51), then the drain loop goes on (line 65), then
\* the awaiting retryWithBackoff resumes (lines 89-125)
Settle(d, outcome) ==
    /\ d \in drains
    /\ d.pc = "op"
    /\ returned' = [returned EXCEPT ![d.entry.ticket] = Append(@, outcome)]
    /\ settled' = [settled EXCEPT ![PromiseOf(Gov, d.entry)] = Append(@, outcome)]
    /\ SetGov(AfterEntry([Gov EXCEPT !.drains = @ \ {d}], outcome, now))
    /\ callers' = [c \in Callers |->
                      IF /\ callers[c].pc = "awaiting"
                         /\ callers[c].ticket = PromiseOf(Gov, d.entry)
                         /\ settled[callers[c].ticket] = <<>>
                      THEN AfterAttempt(callers[c], outcome, now)
                      ELSE callers[c]]
    /\ UNCHANGED <<now, probe>>

\* the wrapped operation is the upstream call alone
OpReturns(d, outcome) ==
    /\ d \in drains
    /\ outcome \in OpOutcomes(d.entry.ticket)
    /\ Settle(d, outcome)

\* the backoff delay fires: attempt++, the loop test, rateLimitedRequest(fn)
BackoffElapsed(c) ==
    /\ callers[c].pc = "backoff"
    /\ now >= callers[c].wake
    /\ nextTicket <= MaxTickets
    /\ IF callers[c].attempt + 1 <= maxRetries
       THEN /\ SetGov(RateLimitedRequest(Gov, c, callers[c].attempt + 1, now))
            /\ callers' = [callers EXCEPT ![c].pc = "awaiting", ![c].attempt = @ + 1,
                                           ![c].ticket = nextTicket]
       ELSE /\ callers' = [callers EXCEPT ![c].pc = "done",
                                          ![c].result = callers[c].lastError]
            /\ UNCHANGED <<lastRequestTime, requestCount, requestQueue,
                           isProcessingQueue, windowTimers, drains, nextTicket,
                           dispatchLog>>
    /\ UNCHANGED <<now, returned, settled, probe>>

\* setTimeout(() => requestCount--, RATE_LIMIT_WINDOW) fires
WindowExpires(i) ==
    /\ i \in 1..Len(windowTimers)
    /\ now >= windowTimers[i]
    /\ requestCount' = requestCount - 1
    /\ windowTimers' = [k \in 1..(Len(windowTimers) - 1) |->
                           IF k < i THEN windowTimers[k] ELSE windowTimers[k + 1]]
    /\ UNCHANGED <<now, lastRequestTime, requestQueue, isProcessingQueue, drains,
                   nextTicket, dispatchLog, returned, settled, callers, probe>>

\* the instants at which something pending becomes due
Deadlines ==
    {d.wake : d \in drains}
    \cup {callers[c].wake : c \in {x \in Callers : /\ callers[x].pc = "backoff"
                                                     /\ nextTicket <= MaxTickets}}
    \cup {windowTimers[i] : i \in 1..Len(windowTimers)}

\* the timers due at the present instant: the upstream call has no deadline
DueNow ==
    {u \in Deadlines \ {d.wake : d \in {x \in drains : x.pc = "op"}} : u <= now}

\* the clock advances to the next such instant, once every timer due at the
\* present instant has fired; an upstream call may stay in flight
Tick ==
    /\ DueNow = {}
    /\ \E t \in Deadlines :
          /\ t > now
          /\ t <= StartTime + MaxElapsed
          /\ \A u \in Deadlines : u > now => t <= u
          /\ now' = t
    /\ UNCHANGED <<lastRequestTime, requestCount, requestQueue, isProcessingQueue,
                   windowTimers, drains, nextTicket, dispatchLog, returned,
                   settled, callers, probe>>

Next ==
    \/ \E c \in Callers : Call(c)
    \/ \E d \in drains : SpacingElapsed(d)
    \/ \E d \in drains : \E o \in OpOutcomes(d.entry.ticket) : OpReturns(d, o)
    \/ \E c \in Callers : BackoffElapsed(c)
    \/ \E i \in 1..Len(windowTimers) : WindowExpires(i)
    \/ Tick

Spec == Init /\ [][Next]_vars

\* ------------------------------------------- every operation returns in time
\* no upstream call in flight has reached its latest instant of return
ReturnedInTime == \A d \in drains : d.pc = "op" => now < d.wake

\* the clock advances only when, besides the timers, no upstream call is due
TickInTime == ReturnedInTime /\ Tick

NextLive ==
    \/ \E c \in Callers : Call(c)
    \/ \E d \in drains : SpacingElapsed(d)
    \/ \E d \in drains : \E o \in OpOutcomes(d.entry.ticket) : OpReturns(d, o)
    \/ \E c \in Callers : BackoffElapsed(c)
    \/ \E i \in 1..Len(windowTimers) : WindowExpires(i)
    \/ TickInTime

\* every timer that is due fires, every upstream call in flight returns, and
\* the clock goes on; nothing obliges a caller to call
Fairness ==
    /\ WF_vars(\E d \in drains : SpacingElapsed(d))
    /\ WF_vars(\E d \in drains : \E o \in OpOutcomes(d.entry.ticket) : OpReturns(d, o))
    /\ \A c \in Callers : WF_vars(BackoffElapsed(c))
    /\ WF_vars(\E i \in 1..Len(windowTimers) : WindowExpires(i))
    /\ WF_vars(TickInTime)

SpecLive == Init /\ [][NextLive]_vars /\ Fairness

\* ------------------------------------------------- a burst of calls, no retry
\* the calls of retryWithBackoff made in a burst
MaxBurst == 13

\* a call of getDailyPlan or getReflectionResponse whose operation will
\* succeed at its first attempt: it acts on the governor by rateLimitedRequest
\* alone
BurstCall ==
    /\ nextTicket <= MaxBurst
    /\ now + RATE_LIMIT_WINDOW <= StartTime + MaxElapsed
    /\ SetGov(RateLimitedRequest(Gov, 0, 1, now))
    /\ UNCHANGED <<now, returned, settled, callers, probe>>

\* the operation of such a call returns: resolve (line 50), then the drain
\* loop goes on; its retryWithBackoff returns the value
BurstReturns(d) ==
    /\ d \in drains
    /\ d.pc = "op"
    /\ d.entry.caller = 0
    /\ SetGov(AfterEntry([Gov EXCEPT !.drains = @ \ {d}],
                         OpOutcome(d.entry.ticket, TRUE, {}), now))
    /\ UNCHANGED <<now, returned, settled, callers, probe>>

NextBurst ==
    \/ BurstCall
    \/ \E d \in drains : SpacingElapsed(d)
    \/ \E d \in drains : BurstReturns(d)
    \/ \E i \in 1..Len(windowTimers) : WindowExpires(i)
    \/ Tick

SpecBurst == Init /\ [][NextBurst]_vars

\* ------------------------------------------------------------ handleAPIError
QuotaMessage == "Free tier quota exceeded! You can only make 15 requests per minute. Please wait or upgrade to paid tier."

BusyMessage == "AI service is currently busy. Please try again in a few moments."

AuthMessage == "Invalid API key. Please check your configuration."

GenericMessage == "AI service temporarily unavailable. Please try again later."

UserMessages == {QuotaMessage, BusyMessage, AuthMessage, GenericMessage}

\* the first test without its 'quota' disjunct
HandleAPIErrorNoQuotaWord(msg) ==
    IF "429" \in msg \/ "RESOURCE_EXHAUSTED" \in msg
    THEN QuotaMessage
    ELSE IF "503" \in msg \/ "overloaded" \in msg
         THEN BusyMessage
         ELSE IF "API key" \in msg \/ "401" \in msg
              THEN AuthMessage
              ELSE GenericMessage

\* lines 132-143: the user-facing message for an error message
HandleAPIError(msg) ==
    IF "429" \in msg \/ "quota" \in msg \/ "RESOURCE_EXHAUSTED" \in msg
    THEN QuotaMessage
    ELSE IF "503" \in msg \/ "overloaded" \in msg
         THEN BusyMessage
         ELSE IF "API key" \in msg \/ "401" \in msg
              THEN AuthMessage
              ELSE GenericMessage

\* ------------------------------------------------- getDailyPlan's catch block
\* throw error in place of throw new Error(userFriendlyMessage)
GetDailyPlanCatchRethrow(error) ==
    [state |-> "rejected", raw |-> TRUE, text |-> "upstream error text"]

\* lines 280-284: the error of retryWithBackoff is replaced by a new Error
\* whose message is handleAPIError's
GetDailyPlanCatch(error) ==
    [state |-> "rejected", raw |-> FALSE, text |-> HandleAPIError(error.msg)]

\* lines 210-284: what getDailyPlan's promise settles with, given what
\* retryWithBackoff settled with
GetDailyPlanSettles(result) ==
    IF result.ok
    THEN [state |-> "resolved", value |-> result]
    ELSE GetDailyPlanCatch(result)

\* ---------------------------------------- getReflectionResponse's catch block
\* lines 336-342
fallbackResponses ==
    << "Thank you for sharing your thoughts! ...",
       "I appreciate you taking time to reflect. ...",
       "Your reflection shows genuine progress. ...",
       "Thanks for being so thoughtful about your journey. ...",
       "Your honesty in reflection is powerful. ..." >>

\* Math.floor(Math.random() * fallbackResponses.length)
RandomIndexes == 0..(Len(fallbackResponses) - 1)

\* line 347: the test that appends the quota note
HasQuotaNote(msg) == "quota" \in msg \/ "429" \in msg

\* the catch block rethrowing in place of returning a fallback
GetReflectionCatchRethrow(error, pick) ==
    [state |-> "rejected", text |-> "upstream error text", note |-> FALSE]

\* lines 332-352: a fallback string, with the quota note when the test holds
GetReflectionCatch(error, pick) ==
    [state |-> "resolved", text |-> fallbackResponses[pick + 1],
     note |-> HasQuotaNote(error.msg)]

\* lines 311-352: what getReflectionResponse's promise settles with
GetReflectionSettles(result, pick) ==
    IF result.ok
    THEN [state |-> "resolved", text |-> "upstream text", note |-> FALSE]
    ELSE GetReflectionCatch(result, pick)

\* ------------------------------------------- one attempt, for every message
\* every error message: every combination of the markers
Messages == SUBSET Markers

\* retryWithBackoff at the await of attempt number a
AtAttempt(a) == [pc |-> "awaiting", attempt |-> a, wake |-> 0, ticket |-> a,
                 lastError |-> NoOutcome, result |-> NoOutcome,
                 calls |-> <<>>, waits |-> <<>>, fn |-> "retryWithBackoff",
                 goal |-> NoGoal, profile |-> NoProfile]

\* the wrappers have not settled while retryWithBackoff is in its backoff
Pending == [state |-> "pending"]

\* the wrapped operation settles attempt a with the outcome: the catch block
\* of retryWithBackoff runs, and those of its two callers when it throws
AttemptSettles(outcome, a, pick) ==
    /\ probe = NoProbe
    /\ LET after == AfterAttempt(AtAttempt(a), outcome, now) IN
       probe' = [fn |-> "retryWithBackoff", outcome |-> outcome, attempt |-> a,
                 pick |-> pick, after |-> after,
                 plan |-> IF after.pc = "done"
                          THEN GetDailyPlanSettles(after.result) ELSE Pending,
                 reflection |-> IF after.pc = "done"
                                THEN GetReflectionSettles(after.result, pick)
                                ELSE Pending]
    /\ UNCHANGED <<now, lastRequestTime, requestCount, requestQueue,
                   isProcessingQueue, windowTimers, drains, nextTicket,
                   dispatchLog, returned, settled, callers>>

NextAttempt ==
    \E a \in 1..maxRetries : \E pick \in RandomIndexes :
        \/ AttemptSettles(OpOutcome(a, TRUE, {}), a, pick)
        \/ \E m \in Messages : AttemptSettles(OpOutcome(a, FALSE, m), a, pick)

SpecAttempt == Init /\ [][NextAttempt]_vars

\* ----------------------------------------- getDailyPlan's wrapped operation
\* the longest otherTasks array drawn
MaxOther == 3

\* a task text that is missing, null or empty is "": JavaScript tests it falsy
TaskTexts == {"", "Read one chapter", "Walk 20 minutes"}

\* planData.otherTasks when it is not an array
NotAnArray == [array |-> FALSE, items |-> <<>>]

\* planData.otherTasks when it is an array: its elements' task texts
TaskArray(items) == [array |-> TRUE, items |-> items]

OtherTaskLists ==
    {TaskArray(items) : items \in UNION {[1..n -> TaskTexts] : n \in 0..MaxOther}}
    \cup {NotAnArray}

\* the values JSON.parse may give: GeminiDailyPlanResponse, fields optional
PlanDatas ==
    [gia : {"", "Write 500 words"}, otherTasks : OtherTaskLists,
     motivationalQuote : {"", "Small steps every day."}]

\* what ai.models.generateContent produces: it throws, or it returns no
\* text, text that is not JSON, or JSON text
PlanResponses ==
    {[kind |-> "error", msg |-> m] : m \in OpErrors}
    \cup {[kind |-> "empty"], [kind |-> "not json"]}
    \cup {[kind |-> "json", planData |-> p] : p \in PlanDatas}

\* `task_${Date.now()}_${suffix}`
TaskId(t, suffix) == [time |-> t, suffix |-> suffix]

NewTask(t, suffix, text, isGIA) ==
    [id |-> TaskId(t, suffix), text |-> text, isCompleted |-> FALSE, isGIA |-> isGIA]

\* lines 251-260: forEach over otherTasks from its i-th element (index i - 1)
RECURSIVE OtherTasksFrom(_, _, _)
OtherTasksFrom(o, i, t) ==
    IF i > Len(o)
    THEN <<>>
    ELSE (IF o[i] # "" THEN <<NewTask(t, ToString(i - 1), o[i], FALSE)>> ELSE <<>>)
         \o OtherTasksFrom(o, i + 1, t)

GiaTasks(p, t) ==
    IF p.gia # "" THEN <<NewTask(t, "gia", p.gia, TRUE)>> ELSE <<>>

\* the quote task with an id that does not end in quote
QuoteTasksOtherSuffix(p, t) ==
    IF p.motivationalQuote # ""
    THEN <<NewTask(t, "motivation", p.motivationalQuote, FALSE)>> ELSE <<>>

\* lines 263-270
QuoteTasks(p, t) ==
    IF p.motivationalQuote # ""
    THEN <<NewTask(t, "quote", p.motivationalQuote, FALSE)>> ELSE <<>>

SupportingTasks(p, t) ==
    IF p.otherTasks.array THEN OtherTasksFrom(p.otherTasks.items, 1, t) ELSE <<>>

\* task.id.includes('quote'), for an id `task_${time}_${suffix}` whose suffix
\* is gia, an array index or quote
IdIncludesQuote(id) == id.suffix = "quote"

\* the quote pushed before the GIA and the supporting tasks
MapPlanQuoteFirst(p, t) == QuoteTasks(p, t) \o GiaTasks(p, t) \o SupportingTasks(p, t)

\* lines 239-270: the tasks array after the three pushes
MapPlan(p, t) == GiaTasks(p, t) \o SupportingTasks(p, t) \o QuoteTasks(p, t)

\* the thrown text worded so that it carries a retryable marker
ThrownUnavailable(ticket, text) ==
    [ok |-> FALSE, msg |-> {"UNAVAILABLE"}, id |-> ticket, thrown |-> text]

\* an error thrown by the wrapped operation itself: its text carries no marker
Thrown(ticket, text) == [ok |-> FALSE, msg |-> {}, id |-> ticket, thrown |-> text]

\* lines 211-278: the wrapped operation of getDailyPlan, given the response
PlanOperation(resp, ticket, t) ==
    IF resp.kind = "error"
    THEN OpOutcome(ticket, FALSE, resp.msg)
    ELSE IF resp.kind = "empty"
    THEN Thrown(ticket, "Empty response from Gemini API")
    ELSE IF resp.kind = "not json"
    THEN Thrown(ticket, "Invalid response format from AI")
    ELSE IF Len(MapPlan(resp.planData, t)) = 0
    THEN Thrown(ticket, "No valid tasks generated")
    ELSE [ok |-> TRUE, msg |-> {}, id |-> ticket, tasks |-> MapPlan(resp.planData, t)]

\* attempt a of getDailyPlan's call gets the response: the wrapped operation
\* runs to its end, then the catch blocks
PlanAttemptSettles(resp, a) ==
    /\ probe = NoProbe
    /\ LET outcome == PlanOperation(resp, a, now)
           after == AfterAttempt(AtAttempt(a), outcome, now)
       IN  probe' = [fn |-> "getDailyPlan", response |-> resp, attempt |-> a,
                     outcome |-> outcome, after |-> after,
                     plan |-> IF after.pc = "done"
                              THEN GetDailyPlanSettles(after.result) ELSE Pending]
    /\ UNCHANGED <<now, lastRequestTime, requestCount, requestQueue,
                   isProcessingQueue, windowTimers, drains, nextTicket,
                   dispatchLog, returned, settled, callers>>

NextPlanAttempt ==
    \E a \in 1..maxRetries : \E resp \in PlanResponses : PlanAttemptSettles(resp, a)

SpecPlanAttempt == Init /\ [][NextPlanAttempt]_vars

\* ------------------------------------ getDailyPlan and getReflectionResponse
\* !goal alone, without the test of goal.title
ValidGoalPresent(goal) == goal.present

\* line 178, negated: goal && goal.title
ValidGoal(goal) == goal.present /\ goal.title # ""

\* line 182, negated: profile && profile.identity
ValidProfile(profile) == profile.present /\ profile.identity # ""

\* the calls the application has under way: a plan and a reflection, or two
\* of either
AppCallers == {1, 2}

\* lines 178-184: the throw before the try; nothing else has run
ValidationThrows(c, profile, goal, text) ==
    /\ callers' = [callers EXCEPT ![c].pc = "rejected", ![c].fn = "getDailyPlan",
                                   ![c].goal = goal, ![c].profile = profile,
                                   ![c].result = Thrown(0, text)]
    /\ UNCHANGED <<lastRequestTime, requestCount, requestQueue, isProcessingQueue,
                   windowTimers, drains, nextTicket, dispatchLog>>

\* lines 176-211: getDailyPlan up to its first suspension
GetDailyPlan(c, profile, goal) ==
    /\ callers[c].pc = "idle"
    /\ now + RATE_LIMIT_WINDOW <= StartTime + MaxElapsed
    /\ \A b \in AppCallers : b < c => callers[b].pc # "idle"
    /\ IF ~ValidGoal(goal)
       THEN ValidationThrows(c, profile, goal, "Goal is required to generate daily plan")
       ELSE IF ~ValidProfile(profile)
       THEN ValidationThrows(c, profile, goal, "User profile with identity is required")
       ELSE /\ nextTicket <= MaxTickets
            /\ SetGov(RateLimitedRequest(Gov, c, 1, now))
            /\ callers' = [callers EXCEPT ![c].pc = "awaiting", ![c].attempt = 1,
                                           ![c].ticket = nextTicket,
                                           ![c].fn = "getDailyPlan",
                                           ![c].goal = goal, ![c].profile = profile]
    /\ UNCHANGED <<now, returned, settled, probe>>

\* lines 287-312: getReflectionResponse up to its first suspension
GetReflectionResponse(c) ==
    /\ callers[c].pc = "idle"
    /\ now + RATE_LIMIT_WINDOW <= StartTime + MaxElapsed
    /\ \A b \in AppCallers : b < c => callers[b].pc # "idle"
    /\ nextTicket <= MaxTickets
    /\ SetGov(RateLimitedRequest(Gov, c, 1, now))
    /\ callers' = [callers EXCEPT ![c].pc = "awaiting", ![c].attempt = 1,
                                   ![c].ticket = nextTicket,
                                   ![c].fn = "getReflectionResponse"]
    /\ UNCHANGED <<now, returned, settled, probe>>

\* lines 312-330: the wrapped operation of getReflectionResponse
ReflectionOperation(resp, ticket) ==
    IF resp.kind = "error"
    THEN OpOutcome(ticket, FALSE, resp.msg)
    ELSE IF resp.kind = "empty"
    THEN Thrown(ticket, "Empty response from Gemini API")
    ELSE [ok |-> TRUE, msg |-> {}, id |-> ticket, text |-> "upstream text"]

\* planData without a usable part
NoTasksPlan == [gia |-> "", otherTasks |-> TaskArray(<<"">>), motivationalQuote |-> ""]

FullPlan == [gia |-> "Write 500 words", otherTasks |-> TaskArray(<<"Read one chapter">>),
             motivationalQuote |-> "Small steps every day."]

\* the responses drawn for the plan call of the application
AppPlanResponses ==
    {[kind |-> "error", msg |-> {"429", "quota"}], [kind |-> "error", msg |-> {"503"}],
     [kind |-> "empty"], [kind |-> "not json"],
     [kind |-> "json", planData |-> NoTasksPlan],
     [kind |-> "json", planData |-> FullPlan]}

\* the responses drawn for the reflection call of the application
AppReflectionResponses ==
    {[kind |-> "error", msg |-> {"429", "quota"}], [kind |-> "error", msg |-> {"503"}],
     [kind |-> "empty"], [kind |-> "text"]}

\* the upstream call of a plan attempt returns: lines 225-277, then Settle
PlanReturns(d, resp) ==
    /\ d \in drains
    /\ callers[d.entry.caller].fn = "getDailyPlan"
    /\ resp \in PlanResponses
    /\ Settle(d, PlanOperation(resp, d.entry.ticket, now))

\* the upstream call of a reflection attempt returns: lines 324-329
ReflectionReturns(d, resp) ==
    /\ d \in drains
    /\ callers[d.entry.caller].fn = "getReflectionResponse"
    /\ Settle(d, ReflectionOperation(resp, d.entry.ticket))

NextApp ==
    \/ \E c \in AppCallers : \E profile \in Profiles : \E goal \in Goals :
          GetDailyPlan(c, profile, goal)
    \/ \E c \in AppCallers : GetReflectionResponse(c)
    \/ \E d \in drains : SpacingElapsed(d)
    \/ \E d \in drains : \E resp \in AppPlanResponses : PlanReturns(d, resp)
    \/ \E d \in drains : \E resp \in AppReflectionResponses : ReflectionReturns(d, resp)
    \/ \E c \in AppCallers : BackoffElapsed(c)
    \/ \E i \in 1..Len(windowTimers) : WindowExpires(i)
    \/ Tick

SpecApp == Init /\ [][NextApp]_vars

\* ------------------------------------------------- getPreviousDayTasksString
\* the date keys, in their order: YYYY-MM-DD strings compare as their dates
MaxDay == 4

Days == 1..MaxDay

\* task texts, one per date key
DayTexts == <<"Run", "Read", "Write", "Walk", "Swim", "Cook", "Plan", "Rest">>

\* the plans a date key may hold: without a tasks field, with an empty tasks
\* array, or with two tasks
PlanShapes == {"no tasks field", "no task", "two tasks"}

StoredPlan(shape, d) ==
    IF shape = "no tasks field" THEN [hasTasks |-> FALSE, tasks |-> <<>>]
    ELSE IF shape = "no task" THEN [hasTasks |-> TRUE, tasks |-> <<>>]
    ELSE [hasTasks |-> TRUE,
          tasks |-> <<[text |-> DayTexts[d], isCompleted |-> TRUE],
                      [text |-> DayTexts[d + 1], isCompleted |-> FALSE]>>]

\* users/<userId>/dailyPlans: the plans by date key
PlanStores ==
    UNION {{[d \in S |-> StoredPlan(shapes[d], d)] : shapes \in [S -> PlanShapes]}
              : S \in SUBSET Days}

NoPreviousTasks == "No previous tasks recorded."

\* line 66: limitToLast(2)
QueryLimit == 2

\* the query without endAt(today): the n greatest keys of all
PlansQueryNoEndAt(plans, today, n) ==
    {k \in DOMAIN plans : Cardinality({j \in DOMAIN plans : j > k}) < n}

\* lines 62-70: orderByKey(), endAt(today), limitToLast(n): the n greatest
\* keys that are at most today
PlansQuery(plans, today, n) ==
    LET upTo == {k \in DOMAIN plans : k <= today}
    IN  {k \in upTo : Cardinality({j \in upTo : j > k}) < n}

\* line 80: `${t.text} (${t.isCompleted ? 'Completed' : 'Not Completed'})`
TaskLine(t) ==
    [text |-> t.text, mark |-> IF t.isCompleted THEN "Completed" ELSE "Not Completed"]

\* lines 58-85; the lines of the result are kept apart, not joined by \n
GetPreviousDayTasksString(plans, today) ==
    LET got == PlansQuery(plans, today, QueryLimit)
        planKeys == {k \in got : k < today}
    IN  IF got = {} \/ planKeys = {}
        THEN <<NoPreviousTasks>>
        ELSE LET lastKey == CHOOSE k \in planKeys : \A j \in planKeys : j <= k
                 lastPlan == plans[lastKey]
             IN  IF lastPlan.hasTasks /\ Len(lastPlan.tasks) > 0
                 THEN [i \in 1..Len(lastPlan.tasks) |-> TaskLine(lastPlan.tasks[i])]
                 ELSE <<NoPreviousTasks>>

PreviousDayTasksAsked(plans, today) ==
    /\ probe = NoProbe
    /\ probe' = [fn |-> "getPreviousDayTasksString", plans |-> plans, today |-> today,
                 out |-> GetPreviousDayTasksString(plans, today)]
    /\ UNCHANGED <<now, lastRequestTime, requestCount, requestQueue,
                   isProcessingQueue, windowTimers, drains, nextTicket,
                   dispatchLog, returned, settled, callers>>

NextPreviousDay ==
    \E plans \in PlanStores : \E today \in Days : PreviousDayTasksAsked(plans, today)

SpecPreviousDay == Init /\ [][NextPreviousDay]_vars

\* --------------------------------------------------- loadUserData, onboarding
\* firestoreService.ts lines 13-14, 19-20: the defaults of getUserData
DefaultProfile == [present |-> TRUE, identity |-> "Default identity"]

DefaultGoal == [present |-> TRUE, title |-> "Default goal"]

\* snapshot.val() of users/<userId>: null, or an object whose profile and
\* goal may each be missing
StoredUsers ==
    {[exists |-> FALSE, profile |-> NoProfile, goal |-> NoGoal]}
    \cup [exists : {TRUE}, profile : Profiles, goal : Goals]

\* firestoreService.ts lines 6-22
GetUserData(data) ==
    IF data.exists /\ (data.profile.present \/ data.goal.present)
    THEN [profile |-> IF data.profile.present THEN data.profile ELSE DefaultProfile,
          goal |-> IF data.goal.present THEN data.goal ELSE DefaultGoal]
    ELSE [profile |-> DefaultProfile, goal |-> DefaultGoal]

\* Profile.tsx line 277: !userData.profile?.identity || !userData.goal?.title
NeedsOnboarding(userData) ==
    \/ ~userData.profile.present
    \/ userData.profile.identity = ""
    \/ ~userData.goal.present
    \/ userData.goal.title = ""

\* the component state before loadUserData
SignedIn(data, storedToday, fails) ==
    [fn |-> "loadUserData", data |-> data, storedToday |-> storedToday,
     fails |-> fails, pc |-> "getUserData", showOnboarding |-> FALSE,
     loading |-> TRUE, userProfile |-> NoProfile, goal |-> NoGoal,
     dailyPlan |-> "none", error |-> FALSE]

\* Profile.tsx line 272: loadUserData(user.uid) is called and awaits
\* getUserData; the read may fail
LoadUserData(data, storedToday, fails) ==
    /\ probe = NoProbe
    /\ probe' = SignedIn(data, storedToday, fails)
    /\ UNCHANGED <<now, lastRequestTime, requestCount, requestQueue,
                   isProcessingQueue, windowTimers, drains, nextTicket,
                   dispatchLog, returned, settled, callers>>

\* Profile.tsx lines 274-303: getUserData has settled
UserDataReturns ==
    /\ probe.fn = "loadUserData"
    /\ probe.pc = "getUserData"
    /\ probe' =
          IF probe.fails
          THEN [probe EXCEPT !.pc = "done", !.error = TRUE, !.loading = FALSE]
          ELSE LET userData == GetUserData(probe.data) IN
               IF NeedsOnboarding(userData)
               THEN [probe EXCEPT !.pc = "done", !.showOnboarding = TRUE,
                                  !.loading = FALSE]
               ELSE [probe EXCEPT !.pc = "loadDailyPlan",
                                  !.userProfile = userData.profile,
                                  !.goal = userData.goal,
                                  !.showOnboarding = FALSE]
    /\ UNCHANGED <<now, lastRequestTime, requestCount, requestQueue,
                   isProcessingQueue, windowTimers, drains, nextTicket,
                   dispatchLog, returned, settled, callers>>

\* Profile.tsx lines 306-321: the stored plan of today is shown, or a plan
\* is to be generated
StoredPlanReturns ==
    /\ probe.fn = "loadUserData"
    /\ probe.pc = "loadDailyPlan"
    /\ probe' = IF probe.storedToday
                THEN [probe EXCEPT !.pc = "done", !.dailyPlan = "stored",
                                   !.loading = FALSE]
                ELSE [probe EXCEPT !.pc = "generateNewDailyPlan", !.loading = TRUE]
    /\ UNCHANGED <<now, lastRequestTime, requestCount, requestQueue,
                   isProcessingQueue, windowTimers, drains, nextTicket,
                   dispatchLog, returned, settled, callers>>

\* Profile.tsx lines 332-350: getDailyPlan has settled
PlanGenerated(ok) ==
    /\ probe.fn = "loadUserData"
    /\ probe.pc = "generateNewDailyPlan"
    /\ probe' = IF ok
                THEN [probe EXCEPT !.pc = "done", !.dailyPlan = "generated",
                                   !.loading = FALSE]
                ELSE [probe EXCEPT !.pc = "done", !.error = TRUE, !.loading = FALSE]
    /\ UNCHANGED <<now, lastRequestTime, requestCount, requestQueue,
                   isProcessingQueue, windowTimers, drains, nextTicket,
                   dispatchLog, returned, settled, callers>>

\* App.tsx lines 68-69: the auth listener of App awaits getUserData
AuthStateChanged(data, fails) ==
    /\ probe = NoProbe
    /\ probe' = [SignedIn(data, FALSE, fails) EXCEPT !.fn = "onAuthStateChanged"]
    /\ UNCHANGED <<now, lastRequestTime, requestCount, requestQueue,
                   isProcessingQueue, windowTimers, drains, nextTicket,
                   dispatchLog, returned, settled, callers>>

\* App.tsx lines 70-92: getUserData never returns null or undefined, so
\* `if (userData)` always takes its first branch
AppUserDataReturns ==
    /\ probe.fn = "onAuthStateChanged"
    /\ probe.pc = "getUserData"
    /\ probe' =
          IF probe.fails
          THEN [probe EXCEPT !.pc = "done", !.error = TRUE, !.loading = FALSE]
          ELSE LET userData == GetUserData(probe.data) IN
               [probe EXCEPT !.pc = "done", !.userProfile = userData.profile,
                             !.goal = userData.goal, !.loading = FALSE,
                             !.showOnboarding = FALSE]
    /\ UNCHANGED <<now, lastRequestTime, requestCount, requestQueue,
                   isProcessingQueue, windowTimers, drains, nextTicket,
                   dispatchLog, returned, settled, callers>>

NextOnboarding ==
    \/ \E data \in StoredUsers : \E storedToday \in BOOLEAN : \E fails \in BOOLEAN :
          LoadUserData(data, storedToday, fails)
    \/ \E data \in StoredUsers : \E fails \in BOOLEAN : AuthStateChanged(data, fails)
    \/ AppUserDataReturns
    \/ UserDataReturns
    \/ StoredPlanReturns
    \/ \E ok \in BOOLEAN : PlanGenerated(ok)

SpecOnboarding == Init /\ [][NextOnboarding]_vars

\* ------------------------------------------------------------------ claims

\* C1: the wrapped operations are invoked in exactly the order their calls
\* were submitted to rateLimitedRequest (the i-th dispatch is the i-th
\* submission), and at most one wrapped operation is executing at any time.
C1_FifoNoOverlap ==
    /\ \A i \in 1..Len(dispatchLog) : dispatchLog[i].ticket = i
    /\ Cardinality({d \in drains : d.pc = "op"}) <= 1

\* three calls were in the governor at once and all three were dispatched
C1_Witness ==
    /\ Len(dispatchLog) >= 3
    /\ \E i \in 1..Len(dispatchLog) : dispatchLog[i].ahead >= 2

\* C2: any two consecutive dispatches, first attempts and retries alike, are
\* stamped at least MIN_REQUEST_INTERVAL apart (gap is the new value of
\* lastRequestTime minus the value it replaces).
C2_MinSpacing ==
    \A i \in 2..Len(dispatchLog) : dispatchLog[i].gap >= MIN_REQUEST_INTERVAL

\* a dispatch that had to wait out the whole interval behind an operation of
\* zero duration, and a retry attempt among the dispatches
C2_Witness ==
    /\ \E i \in 2..Len(dispatchLog) : dispatchLog[i].gap = MIN_REQUEST_INTERVAL
    /\ \E i \in 2..Len(dispatchLog) : dispatchLog[i].attempt >= 2

\* C3: the promise of each rateLimitedRequest call is settled at most once,
\* only after its own operation was invoked, and with exactly the outcome
\* that invocation produced (the value or error carries the call's ticket).
C3_OwnOutcomeOnce ==
    \A k \in Tickets :
        /\ Len(settled[k]) <= 1
        /\ settled[k] # <<>> =>
              /\ \E i \in 1..Len(dispatchLog) : dispatchLog[i].ticket = k
              /\ settled[k] = returned[k]
              /\ settled[k][1].id = k

\* one promise resolved and another rejected, the second call having been
\* submitted while the first was still in the governor
C3_Witness ==
    \E j, k \in Tickets :
        /\ j < k
        /\ settled[j] # <<>> /\ ~settled[j][1].ok
        /\ settled[k] # <<>> /\ settled[k][1].ok
        /\ \E i \in 1..Len(dispatchLog) :
              dispatchLog[i].ticket = k /\ dispatchLog[i].ahead >= 1

\* C4: at most one drain loop is active, and it is active exactly while
\* isProcessingQueue is true; a call submitted while isProcessingQueue is
\* true is appended to the queue and pops nothing.
C4_SingleDrain ==
    /\ [](/\ Cardinality(drains) <= 1
          /\ isProcessingQueue <=> drains # {})
    /\ [][(isProcessingQueue /\ nextTicket' # nextTicket) =>
              /\ drains' = drains
              /\ Len(requestQueue') = Len(requestQueue) + 1
              /\ SubSeq(requestQueue', 1, Len(requestQueue)) = requestQueue
              /\ isProcessingQueue']_vars

\* a call was submitted while an earlier entry was being drained, and another
\* one while the entry after it is in its spacing wait
C4_Witness ==
    \E d \in drains :
        /\ d.pc = "spacing"
        /\ d.entry.ahead >= 1
        /\ Len(requestQueue) >= 1

\* C5 as stated: an operation failing with a quota error on every attempt is
\* retried exactly maxRetries times (maxRetries + 1 invocations, maxRetries
\* waits of baseDelay * 2^attempt) and then fails with the quota-exhausted
\* error.
C5_Original ==
    \A c \in Callers :
        (/\ callers[c].pc = "done"
         /\ callers[c].calls # <<>>
         /\ \A i \in 1..Len(callers[c].calls) :
               ~callers[c].calls[i].ok /\ "quota" \in callers[c].calls[i].msg)
        => /\ Len(callers[c].calls) = maxRetries + 1
           /\ Len(callers[c].waits) = maxRetries
           /\ \A i \in 1..Len(callers[c].waits) : callers[c].waits[i] = baseDelay * 2^i
           /\ callers[c].result = QuotaExhaustedError

\* C5 amended: an operation failing with a quota error on every attempt is
\* invoked exactly maxRetries times (maxRetries - 1 retries); the wait after
\* failed attempt i is baseDelay * 2^i, strictly increasing, and there is no
\* wait after the last attempt; the call then fails with the quota-exhausted
\* error and never resolves.
C5_QuotaExhaustion ==
    \A c \in Callers :
        (/\ callers[c].calls # <<>>
         /\ \A i \in 1..Len(callers[c].calls) :
               ~callers[c].calls[i].ok /\ "quota" \in callers[c].calls[i].msg)
        => /\ Len(callers[c].calls) <= maxRetries
           /\ \A i \in 1..Len(callers[c].waits) : callers[c].waits[i] = baseDelay * 2^i
           /\ \A i, j \in 1..Len(callers[c].waits) :
                 i < j => callers[c].waits[i] < callers[c].waits[j]
           /\ Len(callers[c].calls) < maxRetries =>
                 /\ callers[c].pc \in {"backoff", "awaiting"}
                 /\ Len(callers[c].waits) = Len(callers[c].calls)
           /\ Len(callers[c].calls) = maxRetries =>
                 /\ callers[c].pc = "done"
                 /\ Len(callers[c].waits) = maxRetries - 1
                 /\ callers[c].result = QuotaExhaustedError
                 /\ ~callers[c].result.ok

\* a call whose maxRetries attempts all failed with the quota error
C5_Witness ==
    \E c \in Callers :
        /\ callers[c].pc = "done"
        /\ Len(callers[c].calls) = maxRetries
        /\ \A i \in 1..maxRetries :
              ~callers[c].calls[i].ok /\ "quota" \in callers[c].calls[i].msg

\* C6: an operation that fails once with a 503/overloaded error and then
\* succeeds is invoked exactly twice, with one wait of baseDelay * 1.5^0
\* between, and the call resolves with the result of the second invocation.
C6_OneRetryThenSuccess ==
    \A c \in Callers :
        (/\ Len(callers[c].calls) >= 2
         /\ ~callers[c].calls[1].ok
         /\ callers[c].calls[1].msg \cap {"503", "overloaded"} # {}
         /\ callers[c].calls[1].msg \cap {"429", "quota"} = {}
         /\ callers[c].calls[2].ok)
        => /\ Len(callers[c].calls) = 2
           /\ callers[c].waits = <<baseDelay>>
           /\ callers[c].pc = "done"
           /\ callers[c].result = callers[c].calls[2]
           /\ callers[c].result.ok

\* a call that failed with 503 and succeeded on its retry
C6_Witness ==
    \E c \in Callers :
        /\ Len(callers[c].calls) = 2
        /\ ~callers[c].calls[1].ok /\ "503" \in callers[c].calls[1].msg
        /\ callers[c].calls[2].ok
        /\ callers[c].pc = "done"

\* C7: an operation failing with a service-unavailable error on every
\* attempt waits baseDelay * 1.5^(attempt-1) after each failed attempt but
\* the last, is invoked maxRetries times, and the call then rejects with the
\* error of the last invocation itself, not with the quota-exhausted error.
C7_UnavailableExhaustion ==
    \A c \in Callers :
        (/\ callers[c].calls # <<>>
         /\ \A i \in 1..Len(callers[c].calls) :
               /\ ~callers[c].calls[i].ok
               /\ callers[c].calls[i].msg \cap {"503", "overloaded", "UNAVAILABLE"} # {}
               /\ callers[c].calls[i].msg \cap {"429", "quota"} = {})
        => /\ Len(callers[c].calls) <= maxRetries
           /\ \A i \in 1..Len(callers[c].waits) :
                 callers[c].waits[i] = (baseDelay * 3^(i - 1)) \div 2^(i - 1)
           /\ Len(callers[c].calls) < maxRetries =>
                 /\ callers[c].pc \in {"backoff", "awaiting"}
                 /\ Len(callers[c].waits) = Len(callers[c].calls)
           /\ Len(callers[c].calls) = maxRetries =>
                 /\ callers[c].pc = "done"
                 /\ Len(callers[c].waits) = maxRetries - 1
                 /\ callers[c].result = callers[c].calls[maxRetries]
                 /\ callers[c].result # QuotaExhaustedError

\* a call whose maxRetries attempts all failed with 503
C7_Witness ==
    \E c \in Callers :
        /\ callers[c].pc = "done"
        /\ Len(callers[c].calls) = maxRetries
        /\ \A i \in 1..maxRetries :
              ~callers[c].calls[i].ok /\ "503" \in callers[c].calls[i].msg

\* C8: an error with no quota marker and no service-unavailable marker ends
\* the call at once, on whichever attempt it occurs: the call rejects with
\* that error, no wait follows it and the operation is not invoked again.
C8_NonRetryableFailsAtOnce ==
    \A c \in Callers :
        \A i \in 1..Len(callers[c].calls) :
            (/\ ~callers[c].calls[i].ok
             /\ callers[c].calls[i].msg \cap
                   {"429", "quota", "RESOURCE_EXHAUSTED", "free_tier_requests",
                    "503", "overloaded", "UNAVAILABLE"} = {})
            => /\ i = Len(callers[c].calls)
               /\ Len(callers[c].waits) = i - 1
               /\ callers[c].pc = "done"
               /\ callers[c].result = callers[c].calls[i]

\* a call ended by a non-retryable error on its second attempt
C8_Witness ==
    \E c \in Callers :
        /\ Len(callers[c].calls) = 2
        /\ ~callers[c].calls[2].ok /\ callers[c].calls[2].msg = {"401"}
        /\ callers[c].pc = "done"

\* C9: a failed entry does not stop the drain loop: the failure reaches only
\* the failed call's own promise, a non-empty queue always has an active
\* drain, and the step in which an operation fails pops the next entry, the
\* head of the queue, and starts it.
C9_FailureDoesNotStopDrain ==
    /\ [](/\ \A k \in Tickets :
                \A i \in 1..Len(settled[k]) : ~settled[k][i].ok => settled[k][i].id = k
          /\ requestQueue # <<>> => (isProcessingQueue /\ drains # {}))
    /\ [][\A d \in drains :
              (/\ d.pc = "op"
               /\ requestQueue # <<>>
               /\ Len(returned'[d.entry.ticket]) > Len(returned[d.entry.ticket])
               /\ ~returned'[d.entry.ticket][Len(returned'[d.entry.ticket])].ok)
              => /\ requestQueue' = Tail(requestQueue)
                 /\ \E n \in drains' : n.entry = Head(requestQueue)
                 /\ isProcessingQueue']_vars

\* an entry queued behind a call that then failed has been dispatched
C9_Witness ==
    \E i \in 2..Len(dispatchLog) :
        /\ dispatchLog[i].ahead >= 1
        /\ dispatchLog[i].ticket = dispatchLog[i - 1].ticket + 1
        /\ returned[dispatchLog[i - 1].ticket] # <<>>
        /\ ~returned[dispatchLog[i - 1].ticket][1].ok
        /\ settled[dispatchLog[i - 1].ticket] = returned[dispatchLog[i - 1].ticket]

\* C10 as stated: when call A is submitted before call B (callers are
\* numbered in submission order), every attempt of A is dispatched before
\* any attempt of B.
C10_Original ==
    \A i, j \in 1..Len(dispatchLog) :
        i < j => dispatchLog[i].caller <= dispatchLog[j].caller

\* C10 amended: attempts are never interleaved: an attempt is dispatched, or
\* enters its spacing wait, only after every attempt dispatched before it has
\* completed; first attempts are dispatched in submission order and the
\* attempts of one call in attempt order.  A retry of A is a new queue entry
\* and may be dispatched after attempts of B.
C10_AttemptsNotInterleaved ==
    /\ \A i \in 1..Len(dispatchLog) :
          (i < Len(dispatchLog) \/ \E d \in drains : d.pc = "spacing")
          => returned[dispatchLog[i].ticket] # <<>>
    /\ \A i, j \in 1..Len(dispatchLog) :
          i < j =>
            /\ (dispatchLog[i].attempt = 1 /\ dispatchLog[j].attempt = 1)
                  => dispatchLog[i].caller < dispatchLog[j].caller
            /\ dispatchLog[i].caller = dispatchLog[j].caller
                  => dispatchLog[i].attempt < dispatchLog[j].attempt

\* an attempt of a later call was dispatched between two attempts of an
\* earlier one, during its backoff wait
C10_Witness ==
    \E i, j, k \in 1..Len(dispatchLog) :
        /\ i < j /\ j < k
        /\ dispatchLog[i].caller = dispatchLog[k].caller
        /\ dispatchLog[i].caller < dispatchLog[j].caller

\* retryWithBackoff threw at the attempt that was tried
AttemptThrew ==
    /\ probe.fn = "retryWithBackoff"
    /\ probe.after.pc = "done"
    /\ ~probe.after.result.ok

\* C12: whenever retryWithBackoff fails inside getReflectionResponse, for
\* any error message, for the empty response and for the quota-exhausted
\* error, the promise resolves to one of the five fallback strings, with or
\* without the quota note; it never rejects.
C12_ReflectionNeverRejects ==
    AttemptThrew =>
        /\ probe.reflection.state = "resolved"
        /\ \E i \in 1..5 : probe.reflection.text = fallbackResponses[i]
        /\ probe.reflection.note \in BOOLEAN

\* the last attempt failed with a quota error: the quota-exhausted error
\* reached the catch block and the last fallback string was drawn
C12_Witness ==
    /\ AttemptThrew
    /\ probe.attempt = maxRetries
    /\ probe.after.result = QuotaExhaustedError
    /\ probe.reflection.state = "resolved"
    /\ probe.reflection.text = fallbackResponses[5]
    /\ probe.reflection.note

\* C13: the fallback of getReflectionResponse carries the quota note if and
\* only if the message of the error it caught carries one of the quota
\* markers 429, quota, RESOURCE_EXHAUSTED, free_tier_requests.
C13_NoteIffQuotaMarker ==
    AttemptThrew =>
        (probe.reflection.note <=>
            probe.after.result.msg
                \cap {"429", "quota", "RESOURCE_EXHAUSTED", "free_tier_requests"} # {})

\* C16: whenever retryWithBackoff fails inside getDailyPlan, the error that
\* getDailyPlan rejects with is a new error carrying one of the four
\* user-facing messages, never the upstream error.
C16_PlanFailureIsUserMessage ==
    AttemptThrew =>
        /\ probe.plan.state = "rejected"
        /\ ~probe.plan.raw
        /\ probe.plan.text \in UserMessages

\* an upstream error whose message carries 503 and API key was thrown at the
\* last attempt and surfaced with the service-busy message
C16_Witness ==
    /\ AttemptThrew
    /\ probe.attempt = maxRetries
    /\ probe.outcome.msg = {"503", "API key"}
    /\ probe.plan.state = "rejected"
    /\ probe.plan.text = BusyMessage

\* C18: an error that handleAPIError reports with the auth message (it
\* carries 401 or API key) makes retryWithBackoff throw it at once: no
\* backoff wait, no further invocation.
C18_AuthNeverRetried ==
    (/\ probe.fn = "retryWithBackoff"
     /\ ~probe.outcome.ok
     /\ HandleAPIError(probe.outcome.msg) = AuthMessage)
        => /\ probe.after.pc = "done"
           /\ probe.after.waits = <<>>
           /\ probe.after.result = probe.outcome

\* C19: an error whose message carries any of the quota markers 429, quota,
\* RESOURCE_EXHAUSTED, free_tier_requests is handled by the quota branch:
\* before the last attempt it waits baseDelay * 2^attempt, at the last
\* attempt it throws the quota-exhausted error.
C19_QuotaMarkersRetried ==
    (/\ probe.fn = "retryWithBackoff"
     /\ ~probe.outcome.ok
     /\ probe.outcome.msg
            \cap {"429", "quota", "RESOURCE_EXHAUSTED", "free_tier_requests"} # {})
        => IF probe.attempt < maxRetries
           THEN /\ probe.after.pc = "backoff"
                /\ probe.after.waits = <<QuotaDelay(baseDelay, probe.attempt)>>
           ELSE /\ probe.after.pc = "done"
                /\ probe.after.result = QuotaExhaustedError

\* C20: for every error message the branch retryWithBackoff takes (quota
\* backoff, service-unavailable backoff, no retry) is the category of the
\* message handleAPIError returns (quota, service-busy, auth or generic).
C20_OneClassification ==
    (/\ probe.fn = "retryWithBackoff"
     /\ ~probe.outcome.ok
     /\ probe.attempt < maxRetries)
        => LET reported == HandleAPIError(probe.outcome.msg)
               after == probe.after
           IN  /\ reported = QuotaMessage <=>
                     /\ after.pc = "backoff"
                     /\ after.waits = <<QuotaDelay(baseDelay, probe.attempt)>>
               /\ reported = BusyMessage <=>
                     /\ after.pc = "backoff"
                     /\ after.waits = <<RetryDelay(baseDelay, probe.attempt)>>
               /\ reported \in {AuthMessage, GenericMessage} <=> after.pc = "done"

\* the supporting task texts that are kept, in their otherTasks order
KeptTexts(p) ==
    SelectSeq(p.otherTasks.items, LAMBDA x : x # "")

\* C15: on success the task list is: the GIA task (isGIA true) when gia.task
\* is present, then the supporting tasks with a text, in their otherTasks
\* order and isGIA false, then the task carrying the quote (isGIA false) when
\* the quote is present; every task has isCompleted false and at most one
\* has isGIA true.
C15_OrderedTaskList ==
    (probe.fn = "getDailyPlan" /\ probe.plan.state = "resolved") =>
        LET p == probe.response.planData
            tasks == probe.plan.value.tasks
            g == IF p.gia # "" THEN 1 ELSE 0
            q == IF p.motivationalQuote # "" THEN 1 ELSE 0
            kept == KeptTexts(p)
        IN  /\ Len(tasks) = g + Len(kept) + q
            /\ g = 1 => tasks[1].text = p.gia /\ tasks[1].isGIA
            /\ \A i \in 1..Len(kept) :
                  tasks[g + i].text = kept[i] /\ ~tasks[g + i].isGIA
            /\ q = 1 => /\ tasks[Len(tasks)].text = p.motivationalQuote
                        /\ ~tasks[Len(tasks)].isGIA
            /\ \A i \in 1..Len(tasks) : ~tasks[i].isCompleted
            /\ Cardinality({i \in 1..Len(tasks) : tasks[i].isGIA}) <= 1

\* a plan with a GIA, three supporting tasks of which the second has no text,
\* and a quote was mapped to four tasks
C15_Witness ==
    /\ probe.fn = "getDailyPlan"
    /\ probe.plan.state = "resolved"
    /\ probe.response.planData.gia # ""
    /\ probe.response.planData.otherTasks
           = TaskArray(<<"Walk 20 minutes", "", "Read one chapter">>)
    /\ probe.response.planData.motivationalQuote # ""
    /\ Len(probe.plan.value.tasks) = 4
    /\ probe.plan.value.tasks[2].text = "Walk 20 minutes"
    /\ probe.plan.value.tasks[3].text = "Read one chapter"

\* getDailyPlan was called by c without a goal title or a profile identity
C14_InvalidCall(c) ==
    /\ callers[c].fn = "getDailyPlan"
    /\ callers[c].pc # "idle"
    /\ \/ ~callers[c].goal.present
       \/ callers[c].goal.title = ""
       \/ ~callers[c].profile.present
       \/ callers[c].profile.identity = ""

\* C14: a getDailyPlan call whose goal is missing or has an empty title, or
\* whose profile is missing or has an empty identity, is rejected at once
\* with a validation error; the call never gets into requestQueue, is never
\* dispatched, and the step that rejects it leaves requestQueue,
\* isProcessingQueue, lastRequestTime and requestCount as they were.
C14_ValidationLeavesGovernor ==
    /\ [](\A c \in Callers : C14_InvalidCall(c) =>
            /\ callers[c].pc = "rejected"
            /\ callers[c].result \in
                  {Thrown(0, "Goal is required to generate daily plan"),
                   Thrown(0, "User profile with identity is required")}
            /\ callers[c].ticket = 0
            /\ callers[c].calls = <<>>
            /\ \A i \in 1..Len(requestQueue) : requestQueue[i].caller # c
            /\ \A d \in drains : d.entry.caller # c
            /\ \A i \in 1..Len(dispatchLog) : dispatchLog[i].caller # c)
    /\ [][(\E c \in Callers : ~C14_InvalidCall(c) /\ C14_InvalidCall(c)') =>
            UNCHANGED <<requestQueue, isProcessingQueue, lastRequestTime,
                        requestCount, drains, windowTimers, nextTicket,
                        dispatchLog>>]_vars

\* a plan call with an empty goal title was rejected while the first call's
\* attempt was in flight and the drain loop was running
C14_Witness ==
    /\ callers[2].pc = "rejected"
    /\ callers[2].goal = [present |-> TRUE, title |-> ""]
    /\ callers[2].profile.identity # ""
    /\ callers[1].pc = "awaiting"
    /\ isProcessingQueue
    /\ requestCount = 1

\* the number of times the wrapped operation of c's call was invoked
Invocations(c) ==
    Cardinality({i \in 1..Len(dispatchLog) : dispatchLog[i].caller = c})

\* C17: in a getDailyPlan call, an attempt whose response is empty, is not
\* JSON or yields zero tasks is the last one: the call fails with that
\* attempt's error, without a backoff wait after it and without a further
\* invocation (exactly one invocation when it was the first response), and
\* getDailyPlan rejects: no task list is returned.
C17_MalformedNeverRetried ==
    \A c \in Callers : callers[c].fn = "getDailyPlan" =>
        \A i \in 1..Len(callers[c].calls) :
            LET o == callers[c].calls[i] IN
            /\ o.ok => Len(o.tasks) > 0
            /\ "thrown" \in DOMAIN o =>
                  /\ i = Len(callers[c].calls)
                  /\ callers[c].pc = "done"
                  /\ callers[c].result = o
                  /\ Invocations(c) = i
                  /\ Len(callers[c].waits) = i - 1
                  /\ GetDailyPlanSettles(callers[c].result).state = "rejected"

\* the first response of a plan call yielded zero tasks: one invocation, no
\* wait, and the call failed with the generic message
C17_Witness ==
    \E c \in Callers :
        /\ callers[c].fn = "getDailyPlan"
        /\ callers[c].pc = "done"
        /\ Len(callers[c].calls) = 1
        /\ callers[c].calls[1] = Thrown(callers[c].ticket, "No valid tasks generated")
        /\ Invocations(c) = 1
        /\ callers[c].waits = <<>>
        /\ GetDailyPlanSettles(callers[c].result).text = GenericMessage

\* C11: every call of retryWithBackoff, whatever the other calls under way
\* and whatever the errors, ends: Success (the operation's value), or a
\* failure (the error of a non-retryable or last attempt, or the
\* quota-exhausted error after maxRetries attempts), with its promise settled
\* by an outcome.  In the model a call may also be left in its backoff once
\* MaxTickets submissions have been made.
C11_EveryCallSettles ==
    /\ \A c \in Callers :
          (callers[c].pc \in {"awaiting", "backoff"})
              ~> \/ callers[c].pc = "done"
                 \/ callers[c].pc = "backoff" /\ nextTicket > MaxTickets
    /\ [](\A c \in Callers : callers[c].pc = "done" =>
            /\ callers[c].result # NoOutcome
            /\ \/ callers[c].result.ok
               \/ callers[c].result = QuotaExhaustedError
                     /\ Len(callers[c].calls) = maxRetries
               \/ callers[c].result = callers[c].calls[Len(callers[c].calls)])

\* two calls were under way at once; one has ended with the quota-exhausted
\* error after its retries, the other with the operation's value
C11_Witness ==
    /\ \E i \in 1..Len(dispatchLog) : dispatchLog[i].ahead >= 1
    /\ \E c \in Callers : /\ callers[c].pc = "done"
                          /\ callers[c].result = QuotaExhaustedError
                          /\ Len(callers[c].calls) = maxRetries
    /\ \E c \in Callers : callers[c].pc = "done" /\ callers[c].result.ok

\* C21: requestCount is never negative: it is the number of window timers
\* still pending, each of which was scheduled by a dispatch that incremented
\* it first.
C21_CountNeverNegative ==
    /\ requestCount >= 0
    /\ requestCount = Len(windowTimers)

\* the window timer of the first dispatch has fired while those of two later
\* dispatches are pending
C21_Witness ==
    /\ Len(dispatchLog) = 3
    /\ Len(windowTimers) = 2
    /\ requestCount = 2

\* C26: at every suspension point a non-empty requestQueue has a drain loop
\* running (isProcessingQueue is true and an entry is being drained), and
\* when no entry is being drained the queue is empty and the flag is false.
C26_NoStrandedEntry ==
    /\ Len(requestQueue) > 0 => isProcessingQueue
    /\ isProcessingQueue <=> drains # {}
    /\ drains = {} => Len(requestQueue) = 0

\* the drain loop has ended after a call was submitted while the last entry
\* was being drained
C26_Witness ==
    /\ drains = {}
    /\ ~isProcessingQueue
    /\ \E i \in 1..Len(dispatchLog) : dispatchLog[i].ahead = 1
    /\ Len(dispatchLog) = nextTicket - 1

\* C27: one retryWithBackoff call invokes the operation at most maxRetries
\* times whatever the errors of its attempts, and never after a success.
C27_AtMostMaxRetriesInvocations ==
    \A c \in Callers :
        /\ Invocations(c) <= maxRetries
        /\ Len(callers[c].calls) <= maxRetries
        /\ callers[c].attempt <= maxRetries
        /\ \A i \in 1..Len(callers[c].calls) :
              callers[c].calls[i].ok =>
                  /\ i = Len(callers[c].calls)
                  /\ callers[c].pc = "done"
                  /\ Invocations(c) = i

\* a call ended after maxRetries invocations whose errors were a quota error,
\* then a service-unavailable error, then a non-retryable one
C27_Witness ==
    \E c \in Callers :
        /\ callers[c].pc = "done"
        /\ Invocations(c) = maxRetries
        /\ callers[c].calls[1].msg = {"429", "quota"}
        /\ callers[c].calls[2].msg = {"503"}
        /\ callers[c].calls[3].msg = {"401"}

\* C28: a call ends with the quota-exhausted error exactly when its
\* maxRetries-th attempt failed with a quota error; when that attempt failed
\* with another error, that error is the result, whatever the earlier
\* attempts failed with; no wait follows the last attempt.
C28_QuotaExhaustedIffFinalQuota ==
    \A c \in Callers : callers[c].pc = "done" =>
        LET n == Len(callers[c].calls)
            last == callers[c].calls[n]
            lastIsQuota == /\ ~last.ok
                           /\ last.msg \cap {"429", "quota", "RESOURCE_EXHAUSTED",
                                             "free_tier_requests"} # {}
        IN  /\ callers[c].result = [ok |-> FALSE, msg |-> {"quota"}, id |-> 0]
                  <=> (n = maxRetries /\ lastIsQuota)
            /\ ~(n = maxRetries /\ lastIsQuota) => callers[c].result = last
            /\ Len(callers[c].waits) = n - 1

\* two quota errors, then a service-unavailable error at the last attempt:
\* that error is the result, after the two quota waits
C28_Witness ==
    \E c \in Callers :
        /\ callers[c].pc = "done"
        /\ Len(callers[c].calls) = maxRetries
        /\ callers[c].calls[1].msg = {"429", "quota"}
        /\ callers[c].calls[2].msg = {"429", "quota"}
        /\ callers[c].calls[3].msg = {"503"}
        /\ callers[c].result = callers[c].calls[3]
        /\ callers[c].waits = <<QuotaDelay(baseDelay, 1), QuotaDelay(baseDelay, 2)>>

\* C22: in every reachable state requestCount is at most
\* MAX_REQUESTS_PER_MINUTE, whatever the submissions and whatever the order
\* in which timers due at the same instant fire.
C22_CountWithinCap == requestCount <= MAX_REQUESTS_PER_MINUTE

\* C24: in a task list returned by getDailyPlan, a task's id includes
\* "quote" exactly when it is the trailing task carrying the quote, such a
\* task is neither the GIA nor a supporting task, and the ids of the list
\* are pairwise distinct.
C24_QuoteIdentifiedById ==
    (probe.fn = "getDailyPlan" /\ probe.plan.state = "resolved") =>
        LET p == probe.response.planData
            tasks == probe.plan.value.tasks
            n == Len(tasks)
        IN  /\ \A i \in 1..n :
                  IdIncludesQuote(tasks[i].id) <=>
                      /\ i = n
                      /\ p.motivationalQuote # ""
                      /\ tasks[i].text = p.motivationalQuote
            /\ \A i \in 1..n : IdIncludesQuote(tasks[i].id) => ~tasks[i].isGIA
            /\ Cardinality({i \in 1..n : IdIncludesQuote(tasks[i].id)})
                  = (IF p.motivationalQuote # "" THEN 1 ELSE 0)
            /\ \A i, j \in 1..n : i # j => tasks[i].id # tasks[j].id

\* a list of a GIA, three supporting tasks with the same text and a quote:
\* five ids, and only the last one includes "quote"
C24_Witness ==
    /\ probe.fn = "getDailyPlan"
    /\ probe.plan.state = "resolved"
    /\ probe.response.planData.otherTasks
           = TaskArray(<<"Walk 20 minutes", "Walk 20 minutes", "Walk 20 minutes">>)
    /\ Len(probe.plan.value.tasks) = 5
    /\ probe.plan.value.tasks[1].isGIA
    /\ IdIncludesQuote(probe.plan.value.tasks[5].id)
    /\ ~IdIncludesQuote(probe.plan.value.tasks[4].id)

\* C25: a parsed response with no GIA task text and no supporting task text
\* makes getDailyPlan fail, with or without a motivational quote: no plan is
\* returned.
C25_NoUsableTaskFails ==
    (/\ probe.fn = "getDailyPlan"
     /\ probe.response.kind = "json"
     /\ probe.response.planData.gia = ""
     /\ KeptTexts(probe.response.planData) = <<>>)
        => /\ probe.after.pc = "done"
           /\ ~probe.after.result.ok
           /\ probe.plan.state = "rejected"

\* C29: whenever retryWithBackoff fails with the quota-exhausted error it
\* creates at the last attempt, getDailyPlan rejects with the quota
\* user-facing message and getReflectionResponse resolves to a fallback
\* string with the quota note.
C29_QuotaExhaustionEndToEnd ==
    (/\ AttemptThrew
     /\ probe.after.result = [ok |-> FALSE, msg |-> {"quota"}, id |-> 0])
        => /\ probe.plan.state = "rejected"
           /\ probe.plan.text = QuotaMessage
           /\ probe.reflection.state = "resolved"
           /\ \E i \in 1..5 : probe.reflection.text = fallbackResponses[i]
           /\ probe.reflection.note

\* the last attempt failed with a message carrying 429 and
\* free_tier_requests: quota-exhausted, quota message, quota note
C29_Witness ==
    /\ AttemptThrew
    /\ probe.attempt = maxRetries
    /\ probe.outcome.msg = {"429", "free_tier_requests"}
    /\ probe.after.result = [ok |-> FALSE, msg |-> {"quota"}, id |-> 0]
    /\ probe.plan.text = QuotaMessage
    /\ probe.reflection.note

\* C23: getPreviousDayTasksString returns the task lines of the plan with
\* the greatest date key strictly less than today, one line per task marked
\* Completed or Not Completed, and "No previous tasks recorded." when there
\* is no such plan or it has no tasks; the plan of today is never used.
C23_LatestEarlierPlan ==
    probe.fn = "getPreviousDayTasksString" =>
        LET earlier == {k \in DOMAIN probe.plans : k < probe.today}
        IN  IF earlier = {}
            THEN probe.out = <<"No previous tasks recorded.">>
            ELSE LET prev == CHOOSE k \in earlier : \A j \in earlier : j <= k
                     tasks == probe.plans[prev].tasks
                 IN  IF ~probe.plans[prev].hasTasks \/ tasks = <<>>
                     THEN probe.out = <<"No previous tasks recorded.">>
                     ELSE /\ Len(probe.out) = Len(tasks)
                          /\ \A i \in 1..Len(tasks) :
                                /\ probe.out[i].text = tasks[i].text
                                /\ probe.out[i].mark =
                                      (IF tasks[i].isCompleted THEN "Completed"
                                       ELSE "Not Completed")

\* plans are stored for today and for two earlier dates, none for the day
\* before: the lines are those of the later of the two earlier plans
C23_Witness ==
    /\ probe.fn = "getPreviousDayTasksString"
    /\ probe.today = 4
    /\ DOMAIN probe.plans = {1, 2, 4}
    /\ probe.plans[4].tasks # <<>>
    /\ probe.plans[1].tasks # <<>>
    /\ probe.out = <<[text |-> "Read", mark |-> "Completed"],
                     [text |-> "Write", mark |-> "Not Completed"]>>

\* C30: for a user whose stored data holds no profile identity and no goal
\* title (a new user with no stored data among them), once getUserData has
\* returned in loadUserData, showOnboarding is true, loadUserData is over
\* and no daily plan is loaded or generated.
C30_NewUserSeesOnboarding ==
    (/\ probe.fn = "loadUserData"
     /\ ~probe.fails
     /\ probe.pc # "getUserData"
     /\ ~(probe.data.exists /\ probe.data.profile.present
             /\ probe.data.profile.identity # "")
     /\ ~(probe.data.exists /\ probe.data.goal.present
             /\ probe.data.goal.title # ""))
        => /\ probe.showOnboarding
           /\ probe.pc = "done"
           /\ probe.dailyPlan = "none"

====
